---- MODULE Spec2Model ----
(***************************************************************************)
(* The housing-market ETL pipeline: scripts 02 (unemployment cleaning),    *)
(* 03 (population and housing reshaping, affordability, price trends),     *)
(* 04 (FIPS repair and FIPS attachment by county name) and 05 (load into   *)
(* SQLite), run one after the other on the files of data/processed.        *)
(*                                                                         *)
(* Text is a sequence of one-character strings.  A cell of a DataFrame is  *)
(* a record tagged with its pandas kind: a string, an integer, a float     *)
(* holding a whole number, or NaN.  A CSV file holds text; the dtype of a   *)
(* column is decided again by every read_csv.  Prices and the numbers      *)
(* derived from them are exact rationals (floating-point rounding is not   *)
(* modelled).                                                              *)
(***************************************************************************)
EXTENDS Integers, Sequences, FiniteSets, TLC

VARIABLES
    pc,           \* the next step of the pipeline
    raw_unemp,    \* sheet 'Unemployment Med HH Income' as read_excel returns it
    files,        \* data/processed: file name -> rows (FIPS columns as CSV text)
    counties_df,  \* the frame check_and_fix_fips_codes returns to __main__
    fips_mapping, \* the dict create_county_name_to_fips_mapping returns
    log,          \* the "FIPS mapping success" lines printed so far
    sink,         \* housing_market.db: table name -> rows
    load_idx,     \* the table create_tables_and_import_data loads next
    raw_pop,      \* sheet 'CO-EST2024-POP' as read_excel returns it
    bottom_df,    \* bottom_tier_prices_county.csv as read_csv returns it
    top_df,       \* top_tier_prices_county.csv as read_csv returns it
    housing_df,   \* the frame reshape_housing_data returns to __main__
    fill_pad      \* whether the installed pandas pads nulls in pct_change

vars == <<pc, raw_unemp, files, counties_df, fips_mapping, log, sink, load_idx,
          raw_pop, bottom_df, top_df, housing_df, fill_pad>>

(***************************************************************************)
(* Cells                                                                   *)
(***************************************************************************)
NaN == [t |-> "nan"]
S(s) == [t |-> "str", s |-> s]
I(n) == [t |-> "int", n |-> n]
F(n) == [t |-> "float", n |-> n]

isna(v) == v.t = "nan"
notna(v) == v.t # "nan"

(***************************************************************************)
(* Text                                                                    *)
(***************************************************************************)
DigitChars == <<"0", "1", "2", "3", "4", "5", "6", "7", "8", "9">>
DigitSet == {DigitChars[i] : i \in 1..10}
DigitVal(c) == (CHOOSE i \in 1..10 : DigitChars[i] = c) - 1

RECURSIVE PyStrInt(_)
\* str(n) of a non-negative int
PyStrInt(n) ==
    IF n < 10 THEN <<DigitChars[n + 1]>>
    ELSE Append(PyStrInt(n \div 10), DigitChars[(n % 10) + 1])

\* str(x) of a float holding the whole number n: "6001.0"
PyStrFloat(n) == PyStrInt(n) \o <<".", "0">>

\* Series.astype(str), cell by cell
astype_str(v) ==
    CASE v.t = "str" -> v.s
      [] v.t = "int" -> PyStrInt(v.n)
      [] v.t = "float" -> PyStrFloat(v.n)
      [] v.t = "nan" -> <<"n", "a", "n">>

\* str.zfill(width): zeros on the left up to width, longer text unchanged
zfill(s, width) ==
    IF Len(s) >= width THEN s
    ELSE [i \in 1..(width - Len(s)) |-> "0"] \o s

\* str.endswith(suffix)
endswith(s, suffix) ==
    /\ Len(s) >= Len(suffix)
    /\ SubSeq(s, Len(s) - Len(suffix) + 1, Len(s)) = suffix

IsDigitStr(s) == Len(s) > 0 /\ \A i \in 1..Len(s) : s[i] \in DigitSet

\* the text to_csv writes for a whole-number float: digits, ".", "0"
IsFloatStr(s) ==
    /\ Len(s) > 2
    /\ s[Len(s) - 1] = "."
    /\ s[Len(s)] = "0"
    /\ IsDigitStr(SubSeq(s, 1, Len(s) - 2))

RECURSIVE ParseNat(_)
ParseNat(s) ==
    IF Len(s) = 0 THEN 0
    ELSE 10 * ParseNat(SubSeq(s, 1, Len(s) - 1)) + DigitVal(s[Len(s)])

ParseFloat(s) == ParseNat(SubSeq(s, 1, Len(s) - 2))

(***************************************************************************)
(* Sequences as frames                                                     *)
(***************************************************************************)
RECURSIVE Concat(_)
\* pd.concat(list_of_frames, ignore_index=True)
Concat(ss) == IF ss = <<>> THEN <<>> ELSE Head(ss) \o Concat(Tail(ss))

(***************************************************************************)
(* CSV files: to_csv writes text, read_csv infers each column's dtype      *)
(***************************************************************************)
\* what to_csv writes for one cell: NaN is the empty field
CsvText(v) == IF isna(v) THEN <<>> ELSE astype_str(v)

\* DataFrame.to_csv(index=False) of a frame with a fips_code column
to_csv(df) == [i \in 1..Len(df) |-> [df[i] EXCEPT !.fips_code = CsvText(@)]]

\* the dtype read_csv gives a column holding these texts
infer_dtype(texts) ==
    IF texts = {} THEN "object"
    ELSE IF \A s \in texts : IsDigitStr(s) THEN "int64"
    ELSE IF \A s \in texts : s = <<>> \/ IsDigitStr(s) \/ IsFloatStr(s) THEN "float64"
    ELSE "object"

parse_cell(dtype, s) ==
    CASE dtype = "int64" -> I(ParseNat(s))
      [] dtype = "float64" ->
            IF s = <<>> THEN NaN
            ELSE IF IsFloatStr(s) THEN F(ParseFloat(s)) ELSE F(ParseNat(s))
      [] dtype = "object" -> IF s = <<>> THEN NaN ELSE S(s)

\* pd.read_csv of a file with a fips_code column
read_csv(rows) ==
    LET dtype == infer_dtype({rows[i].fips_code : i \in 1..Len(rows)})
    IN  [i \in 1..Len(rows) |-> [rows[i] EXCEPT !.fips_code = parse_cell(dtype, @)]]

(***************************************************************************)
(* County names: text whose characters are these tokens ("County" stands   *)
(* for the word, which clean_population_data looks for)                    *)
(***************************************************************************)
\* str.lower(), one token
lower_char(c) ==
    CASE c = "A" -> "a"
      [] c = "B" -> "b"
      [] c = "County" -> "county"
      [] OTHER -> c

\* Series.str.lower()
str_lower(s) == [i \in 1..Len(s) |-> lower_char(s[i])]

RECURSIVE lstrip(_)
lstrip(s) == IF s # <<>> /\ Head(s) = " " THEN lstrip(Tail(s)) ELSE s

RECURSIVE rstrip(_)
rstrip(s) ==
    IF s # <<>> /\ s[Len(s)] = " " THEN rstrip(SubSeq(s, 1, Len(s) - 1)) ELSE s

\* Series.str.strip()
str_strip(s) == rstrip(lstrip(s))

IsNotPeriod(c) == c # "."

\* Series.str.replace('.', '', regex=False)
str_replace_period(s) == SelectSeq(s, IsNotPeriod)

\* Series.str.contains('County')
str_contains_County(s) == \E i \in 1..Len(s) : s[i] = "County"

(***************************************************************************)
(* 02_data_cleaning.py: clean_unemployment_data                            *)
(***************************************************************************)
FirstUnempYear == 2000
EndUnempYear == 2024
\* range(2000, 2024)
UnempYears == FirstUnempYear..(EndUnempYear - 1)

HasFips(r) == notna(r.FIPS_Code)

\* df.dropna(subset=['FIPS_Code'])
dropna_FIPS_Code(df) == SelectSeq(df, HasFips)

FipsWidth == 5

\* .astype(str).str.zfill(5), one cell
normalize_fips(v) == S(zfill(astype_str(v), FipsWidth))

\* df['FIPS_Code'] = df['FIPS_Code'].astype(str).str.zfill(5)
pad_FIPS_Code(df) ==
    [i \in 1..Len(df) |-> [df[i] EXCEPT !.FIPS_Code = normalize_fips(@)]]

IsCountyLevel(r) == ~endswith(r.FIPS_Code.s, <<"0", "0", "0">>)

\* df[~df['FIPS_Code'].str.endswith('000')]
counties_only(df) == SelectSeq(df, IsCountyLevel)

\* df[county_cols] renamed to the counties table's columns
counties_table(df) ==
    [i \in 1..Len(df) |->
        [fips_code |-> df[i].FIPS_Code, county_name |-> df[i].Area_Name]]

HasRate(r) == notna(r.unemployment_rate)

\* one pass of the loop over the years: the year's column, null rates dropped
year_data(df, year) ==
    SelectSeq(
        [i \in 1..Len(df) |->
            [fips_code |-> df[i].FIPS_Code,
             unemployment_rate |-> df[i].Unemployment_rate[year],
             year |-> year]],
        HasRate)

\* pd.concat of the frames of all years, in the order of the loop
economic_long(df) ==
    Concat([k \in 1..(EndUnempYear - FirstUnempYear) |->
                year_data(df, FirstUnempYear + k - 1)])

HasIncome(r) == notna(r.median_household_income_2022)

\* the income column with its null rows dropped
income_data(df) ==
    SelectSeq(
        [i \in 1..Len(df) |->
            [fips_code |-> df[i].FIPS_Code,
             median_household_income_2022 |-> df[i].Median_Household_Income_2022]],
        HasIncome)

\* the rows one left row gives in merge(on='fips_code', how='left')
merge_left_row(l, right) ==
    LET hits == SelectSeq(right, LAMBDA r : r.fips_code = l.fips_code)
    IN  IF hits = <<>>
        THEN <<[fips_code |-> l.fips_code,
                unemployment_rate |-> l.unemployment_rate,
                year |-> l.year,
                median_household_income_2022 |-> NaN]>>
        ELSE [j \in 1..Len(hits) |->
                [fips_code |-> l.fips_code,
                 unemployment_rate |-> l.unemployment_rate,
                 year |-> l.year,
                 median_household_income_2022 |->
                     hits[j].median_household_income_2022]]

\* economic_df.merge(income_data, on='fips_code', how='left')
merge_income(left, right) ==
    Concat([i \in 1..Len(left) |-> merge_left_row(left[i], right)])

\* the frame the two tables are cut from
unemp_counties(raw) == counties_only(pad_FIPS_Code(dropna_FIPS_Code(raw)))

\* every df[['FIPS_Code', f'Unemployment_rate_{year}']] finds its column
has_unemployment_rate_columns(raw) ==
    \A i \in 1..Len(raw) : UnempYears \subseteq DOMAIN raw[i].Unemployment_rate

clean_unemployment_data ==
    /\ pc = "clean_unemployment_data"
    /\ has_unemployment_rate_columns(raw_unemp)
    /\ LET df == unemp_counties(raw_unemp)
           counties == counties_table(df)
           economic == merge_income(economic_long(df), income_data(df))
       IN  files' = [files EXCEPT !.counties = to_csv(counties),
                                  !.economic_annual = to_csv(economic)]
    /\ pc' = "clean_population_data"
    /\ UNCHANGED <<raw_unemp, counties_df, fips_mapping, log, sink, load_idx,
                   raw_pop, bottom_df, top_df, housing_df, fill_pad>>

\* a year's column is not in the sheet: counties.csv is saved, then the
\* selection of the column raises KeyError, which names the column
clean_unemployment_data_raises ==
    /\ pc = "clean_unemployment_data"
    /\ ~has_unemployment_rate_columns(raw_unemp)
    /\ files' = [files EXCEPT
                    !.counties = to_csv(counties_table(unemp_counties(raw_unemp)))]
    /\ pc' = "raised"
    /\ UNCHANGED <<raw_unemp, counties_df, fips_mapping, log, sink, load_idx,
                   raw_pop, bottom_df, top_df, housing_df, fill_pad>>

(***************************************************************************)
(* 03_housing_and_population_cleaning.py: clean_population_data            *)
(***************************************************************************)
IsCountyRow(r) == str_contains_County(astype_str(r.area))

\* df[county_mask]: the rows whose first column contains 'County'
county_rows(df) == SelectSeq(df, IsCountyRow)

\* the inner loop over the year columns of one row: null cells are skipped
population_of_row(r, year_columns) ==
    LET cells == [k \in 1..Len(year_columns) |->
                    [county_name |-> S(astype_str(r.area)),
                     year |-> year_columns[k],
                     population |-> r.pop[year_columns[k]]]]
    IN  SelectSeq(cells, LAMBDA c : notna(c.population))

\* population_data after the loop over the rows
population_long(raw) ==
    LET county_df == county_rows(raw.rows)
    IN  Concat([i \in 1..Len(county_df) |->
                    population_of_row(county_df[i], raw.year_columns)])

clean_population_data ==
    /\ pc = "clean_population_data"
    /\ files' = [files EXCEPT !.population_annual = population_long(raw_pop)]
    /\ pc' = "reshape_housing_data"
    /\ UNCHANGED <<raw_unemp, counties_df, fips_mapping, log, sink, load_idx,
                   raw_pop, bottom_df, top_df, housing_df, fill_pad>>

(***************************************************************************)
(* reshape_housing_data.  A date column 'YYYY-MM-DD' is the record of its   *)
(* year and month.                                                         *)
(***************************************************************************)
\* DataFrame.melt: one row per date column and source row, column by column
melt(df) ==
    Concat([k \in 1..Len(df.date_cols) |->
        [i \in 1..Len(df.rows) |->
            [RegionID |-> df.rows[i].RegionID,
             RegionName |-> df.rows[i].RegionName,
             date |-> df.date_cols[k],
             price |-> df.rows[i].price[df.date_cols[k]]]]])

\* the order of the join keys (RegionID, date)
KeyLess(a, b) ==
    \/ a.RegionID < b.RegionID
    \/ a.RegionID = b.RegionID /\ a.date.y < b.date.y
    \/ a.RegionID = b.RegionID /\ a.date.y = b.date.y /\ a.date.m < b.date.m

KeyOf(r) == [RegionID |-> r.RegionID, date |-> r.date]

RECURSIVE SortKeys(_)
SortKeys(keys) ==
    IF keys = {} THEN <<>>
    ELSE LET k == CHOOSE x \in keys : \A z \in keys \ {x} : KeyLess(x, z)
         IN  <<k>> \o SortKeys(keys \ {k})

\* the rows of an inner merge for one key: a key of one side only is lost
merge_key_inner(k, left, right) ==
    LET l == SelectSeq(left, LAMBDA r : KeyOf(r) = k)
        r == SelectSeq(right, LAMBDA x : KeyOf(x) = k)
    IN  Concat([i \in 1..Len(l) |->
            [j \in 1..Len(r) |->
                [RegionID |-> k.RegionID, RegionName |-> l[i].RegionName,
                 date |-> k.date, bottom_tier_price |-> l[i].price,
                 top_tier_price |-> r[j].price]]])

\* the rows of an outer merge for one key: every pairing of the two sides,
\* or the rows of the side that has the key with nulls for the other side
merge_key_outer(k, left, right) ==
    LET l == SelectSeq(left, LAMBDA r : KeyOf(r) = k)
        r == SelectSeq(right, LAMBDA x : KeyOf(x) = k)
    IN  IF r = <<>>
        THEN [i \in 1..Len(l) |->
                [RegionID |-> k.RegionID, RegionName |-> l[i].RegionName,
                 date |-> k.date, bottom_tier_price |-> l[i].price,
                 top_tier_price |-> NaN]]
        ELSE IF l = <<>>
        THEN [j \in 1..Len(r) |->
                [RegionID |-> k.RegionID, RegionName |-> NaN,
                 date |-> k.date, bottom_tier_price |-> NaN,
                 top_tier_price |-> r[j].price]]
        ELSE Concat([i \in 1..Len(l) |->
                [j \in 1..Len(r) |->
                    [RegionID |-> k.RegionID, RegionName |-> l[i].RegionName,
                     date |-> k.date, bottom_tier_price |-> l[i].price,
                     top_tier_price |-> r[j].price]]])

\* bottom_melted.merge(top_melted[...], on=['RegionID', 'date'], how='outer')
merge_outer(left, right) ==
    LET keys == SortKeys({KeyOf(left[i]) : i \in 1..Len(left)}
                         \cup {KeyOf(right[j]) : j \in 1..Len(right)})
    IN  Concat([n \in 1..Len(keys) |-> merge_key_outer(keys[n], left, right)])

\* the year, month and county_name columns added after the merge
with_date_parts(df) ==
    [i \in 1..Len(df) |->
        [RegionID |-> df[i].RegionID, RegionName |-> df[i].RegionName,
         date |-> df[i].date,
         bottom_tier_price |-> df[i].bottom_tier_price,
         top_tier_price |-> df[i].top_tier_price,
         year |-> df[i].date.y, month |-> df[i].date.m,
         county_name |-> df[i].RegionName]]

HasAPrice(r) == notna(r.bottom_tier_price) \/ notna(r.top_tier_price)

\* dropna(subset=['bottom_tier_price', 'top_tier_price'], how='all')
dropna_all_prices(df) == SelectSeq(df, HasAPrice)

\* the frame reshape_housing_data saves and returns
housing_prices(bottom, top) ==
    dropna_all_prices(with_date_parts(
        merge_outer(melt(bottom), melt(top))))

reshape_housing_data ==
    /\ pc = "reshape_housing_data"
    /\ housing_df' = housing_prices(bottom_df, top_df)
    /\ files' = [files EXCEPT !.housing_prices_monthly = housing_df']
    /\ pc' = "calculate_affordability_metrics"
    /\ UNCHANGED <<raw_unemp, counties_df, fips_mapping, log, sink, load_idx,
                   raw_pop, bottom_df, top_df, fill_pad>>

(***************************************************************************)
(* Numbers of the housing tables: exact rationals n/d, NaN, and the        *)
(* infinities float division by zero gives                                 *)
(***************************************************************************)
RECURSIVE GCD(_, _)
GCD(a, b) == IF b = 0 THEN a ELSE GCD(b, a % b)

Abs(n) == IF n < 0 THEN -n ELSE n

\* n/d in lowest terms, d > 0
R(n, d) ==
    LET g == GCD(Abs(n), d)
    IN  [t |-> "num",
         n |-> IF n < 0 THEN -(Abs(n) \div g) ELSE n \div g,
         d |-> d \div g]

Inf == [t |-> "inf"]
NegInf == [t |-> "-inf"]

isnum(v) == v.t = "num"

RatAdd(a, b) == R(a.n * b.d + b.n * a.d, a.d * b.d)
RatSub(a, b) == R(a.n * b.d - b.n * a.d, a.d * b.d)
RatMul(a, b) == R(a.n * b.n, a.d * b.d)

\* a / b for b # 0
RatDiv(a, b) ==
    IF b.n < 0 THEN R(-(a.n * b.d), a.d * (-b.n)) ELSE R(a.n * b.d, a.d * b.n)

\* float multiplication by a positive constant
fmul(v, c) == IF isnum(v) THEN RatMul(v, c) ELSE v

\* float division by a positive constant
fdiv(v, c) == IF isnum(v) THEN RatDiv(v, c) ELSE v

RECURSIVE RatSum(_)
RatSum(vs) == IF vs = <<>> THEN R(0, 1) ELSE RatAdd(Head(vs), RatSum(Tail(vs)))

\* the 'mean' aggregation: nulls are skipped, a group of nulls gives NaN
mean(vs) ==
    LET present == SelectSeq(vs, notna)
    IN  IF present = <<>> THEN NaN
        ELSE RatDiv(RatSum(present), R(Len(present), 1))

(***************************************************************************)
(* groupby(['RegionID', 'county_name', 'year']).agg(mean).reset_index()    *)
(***************************************************************************)
\* the order of str cells: character by character, by code point
CharOrder == <<" ", ".", "A", "B", "County", "a", "b", "county">>
CharOrd(c) == CHOOSE i \in 1..Len(CharOrder) : CharOrder[i] = c

RECURSIVE TextLess(_, _)
TextLess(a, b) ==
    IF b = <<>> THEN FALSE
    ELSE IF a = <<>> THEN TRUE
    ELSE IF Head(a) = Head(b) THEN TextLess(Tail(a), Tail(b))
    ELSE CharOrd(Head(a)) < CharOrd(Head(b))

GroupKeyOf(r) ==
    [RegionID |-> r.RegionID, county_name |-> r.county_name, year |-> r.year]

GroupKeyLess(a, b) ==
    \/ a.RegionID < b.RegionID
    \/ a.RegionID = b.RegionID /\ TextLess(a.county_name.s, b.county_name.s)
    \/ a.RegionID = b.RegionID /\ a.county_name = b.county_name /\ a.year < b.year

RECURSIVE SortGroupKeys(_)
SortGroupKeys(keys) ==
    IF keys = {} THEN <<>>
    ELSE LET k == CHOOSE x \in keys : \A z \in keys \ {x} : GroupKeyLess(x, z)
         IN  <<k>> \o SortGroupKeys(keys \ {k})

\* the group keys: groupby leaves out the rows with a null key (dropna=True)
group_keys(df) ==
    SortGroupKeys({GroupKeyOf(df[i]) :
                      i \in {j \in 1..Len(df) : notna(df[j].county_name)}})

\* the annual means of both tiers, one row per group, in key order
annual_means(df) ==
    LET keys == group_keys(df)
    IN  [n \in 1..Len(keys) |->
            LET g == SelectSeq(df, LAMBDA r : GroupKeyOf(r) = keys[n])
            IN  [RegionID |-> keys[n].RegionID,
                 county_name |-> keys[n].county_name,
                 year |-> keys[n].year,
                 bottom_tier_price |->
                     mean([i \in 1..Len(g) |-> g[i].bottom_tier_price]),
                 top_tier_price |->
                     mean([i \in 1..Len(g) |-> g[i].top_tier_price])]]

(***************************************************************************)
(* calculate_affordability_metrics                                         *)
(***************************************************************************)
\* 0.05: annual housing cost as a share of the home's value
annual_cost_rate == R(5, 100)
\* 0.30: the share of income housing may take
affordability_threshold == R(30, 100)

\* price * 0.05
annual_cost(price) == fmul(price, annual_cost_rate)

\* annual_cost / 0.30
min_salary(cost) == fdiv(cost, affordability_threshold)

affordability_table(df) ==
    LET a == annual_means(df)
    IN  [i \in 1..Len(a) |->
            [RegionID |-> a[i].RegionID,
             county_name |-> a[i].county_name,
             year |-> a[i].year,
             bottom_tier_price |-> a[i].bottom_tier_price,
             top_tier_price |-> a[i].top_tier_price,
             bottom_tier_annual_cost |-> annual_cost(a[i].bottom_tier_price),
             top_tier_annual_cost |-> annual_cost(a[i].top_tier_price),
             bottom_tier_min_salary |->
                 min_salary(annual_cost(a[i].bottom_tier_price)),
             top_tier_min_salary |->
                 min_salary(annual_cost(a[i].top_tier_price))]]

calculate_affordability_metrics ==
    /\ pc = "calculate_affordability_metrics"
    /\ files' = [files EXCEPT !.housing_affordability = affordability_table(housing_df)]
    /\ pc' = "create_annual_price_trends"
    /\ UNCHANGED <<raw_unemp, counties_df, fips_mapping, log, sink, load_idx,
                   raw_pop, bottom_df, top_df, housing_df, fill_pad>>

(***************************************************************************)
(* create_annual_price_trends                                              *)
(***************************************************************************)
TrendLess(a, b) ==
    \/ a.RegionID < b.RegionID
    \/ a.RegionID = b.RegionID /\ a.year < b.year

RECURSIVE sort_by_region_year(_)
\* sort_values(['RegionID', 'year']): rows with equal keys keep their order
sort_by_region_year(df) ==
    IF df = <<>> THEN <<>>
    ELSE LET i == CHOOSE x \in 1..Len(df) :
                    /\ \A z \in 1..Len(df) : ~TrendLess(df[z], df[x])
                    /\ \A z \in 1..(x - 1) : TrendLess(df[x], df[z])
         IN  <<df[i]>> \o sort_by_region_year(
                 SubSeq(df, 1, i - 1) \o SubSeq(df, i + 1, Len(df)))

\* the row before row i in its RegionID group, 0 when i is the group's first
prev_in_group(df, i) ==
    LET before == {j \in 1..(i - 1) : df[j].RegionID = df[i].RegionID}
    IN  IF before = {} THEN 0
        ELSE CHOOSE j \in before : \A z \in before : z <= j

\* the group's column after ffill: the last non-null value at or before row i
padded(df, col, i) ==
    LET seen == {j \in 1..i : df[j].RegionID = df[i].RegionID /\ notna(df[j][col])}
    IN  IF seen = {} THEN NaN
        ELSE df[CHOOSE j \in seen : \A z \in seen : z <= j][col]

\* the value pct_change reads at row i: padded when fill_method is 'pad'
pct_input(df, col, i, pad) == IF pad THEN padded(df, col, i) ELSE df[i][col]

\* current / previous - 1 in float arithmetic
pct(cur, prev) ==
    IF isna(cur) \/ isna(prev) THEN NaN
    ELSE IF prev.n = 0
         THEN IF cur.n = 0 THEN NaN ELSE IF cur.n > 0 THEN Inf ELSE NegInf
         ELSE RatSub(RatDiv(cur, prev), R(1, 1))

\* groupby('RegionID')[col].pct_change() * 100 at row i
growth(df, col, i, pad) ==
    LET j == prev_in_group(df, i)
    IN  IF j = 0 THEN NaN
        ELSE fmul(pct(pct_input(df, col, i, pad), pct_input(df, col, j, pad)),
                  R(100, 1))

trends_table(df, pad) ==
    LET a == sort_by_region_year(annual_means(df))
    IN  [i \in 1..Len(a) |->
            [RegionID |-> a[i].RegionID,
             county_name |-> a[i].county_name,
             year |-> a[i].year,
             bottom_tier_price |-> a[i].bottom_tier_price,
             top_tier_price |-> a[i].top_tier_price,
             bottom_tier_growth |-> growth(a, "bottom_tier_price", i, pad),
             top_tier_growth |-> growth(a, "top_tier_price", i, pad)]]

create_annual_price_trends ==
    /\ pc = "create_annual_price_trends"
    /\ files' = [files EXCEPT
                    !.price_trends_annual = trends_table(housing_df, fill_pad)]
    /\ pc' = "check_and_fix_fips_codes"
    /\ UNCHANGED <<raw_unemp, counties_df, fips_mapping, log, sink, load_idx,
                   raw_pop, bottom_df, top_df, housing_df, fill_pad>>

(***************************************************************************)
(* 04_fix_fips_codes.py: check_and_fix_fips_codes                          *)
(***************************************************************************)
\* df['fips_code'] = df['fips_code'].astype(str).str.zfill(5)
fix_fips_codes(df) ==
    [i \in 1..Len(df) |-> [df[i] EXCEPT !.fips_code = normalize_fips(@)]]

\* population_annual.csv was written from a frame without columns when no
\* population record was collected, and read_csv cannot parse such a file
population_file_parses == files.population_annual # <<>>

check_and_fix_fips_codes ==
    /\ pc = "check_and_fix_fips_codes"
    /\ population_file_parses
    /\ counties_df' = fix_fips_codes(read_csv(files.counties))
    /\ files' = [files EXCEPT
                    !.counties = to_csv(counties_df'),
                    !.economic_annual =
                        to_csv(fix_fips_codes(read_csv(files.economic_annual)))]
    /\ pc' = "create_county_name_to_fips_mapping"
    /\ UNCHANGED <<raw_unemp, fips_mapping, log, sink, load_idx,
                   raw_pop, bottom_df, top_df, housing_df, fill_pad>>

\* the read of population_annual.csv raises after both files were rewritten
check_and_fix_fips_codes_raises ==
    /\ pc = "check_and_fix_fips_codes"
    /\ ~population_file_parses
    /\ files' = [files EXCEPT
                    !.counties = to_csv(fix_fips_codes(read_csv(files.counties))),
                    !.economic_annual =
                        to_csv(fix_fips_codes(read_csv(files.economic_annual)))]
    /\ pc' = "raised"
    /\ UNCHANGED <<raw_unemp, counties_df, fips_mapping, log, sink, load_idx,
                   raw_pop, bottom_df, top_df, housing_df, fill_pad>>

(***************************************************************************)
(* create_county_name_to_fips_mapping                                      *)
(***************************************************************************)
\* .str.lower().str.strip(): the cleaning of the county master's names and
\* of the names of the housing tables
clean_county_name(name) ==
    IF isna(name) THEN NaN ELSE S(str_strip(str_lower(name.s)))

\* dict(zip(clean_county_name, fips_code)): a later row replaces an earlier
\* one with the same key
make_fips_mapping(df) ==
    LET keys == {clean_county_name(df[i].county_name) : i \in 1..Len(df)}
    IN  [k \in keys |->
            LET rows == {i \in 1..Len(df) : clean_county_name(df[i].county_name) = k}
            IN  df[CHOOSE i \in rows : \A z \in rows : z <= i].fips_code]

create_county_name_to_fips_mapping ==
    /\ pc = "create_county_name_to_fips_mapping"
    /\ fips_mapping' = make_fips_mapping(counties_df)
    /\ files' = [files EXCEPT !.county_fips_mapping = to_csv(counties_df)]
    /\ pc' = "add_fips_to_housing_data"
    /\ UNCHANGED <<raw_unemp, counties_df, log, sink, load_idx,
                   raw_pop, bottom_df, top_df, housing_df, fill_pad>>

(***************************************************************************)
(* add_fips_to_housing_data, add_fips_to_population_data                   *)
(***************************************************************************)
\* Series.map(fips_mapping), one cell: a key the dict lacks gives NaN
map_fips(key, mapping) == IF key \in DOMAIN mapping THEN mapping[key] ELSE NaN

\* the frame with its fips_code column, the helper column dropped again
attach_housing(df, mapping) ==
    [i \in 1..Len(df) |->
        [fips_code |-> map_fips(clean_county_name(df[i].county_name), mapping)]
            @@ df[i]]

\* .str.replace('.', '', regex=False).str.lower().str.strip(): the cleaning
\* of the population table's names
clean_population_name(name) ==
    IF isna(name) THEN NaN
    ELSE S(str_strip(str_lower(str_replace_period(name.s))))

\* the attachment as an inner join would make it: unmatched rows are lost
attach_population_matched_only(df, mapping) ==
    SelectSeq(
        [i \in 1..Len(df) |->
            [fips_code |-> map_fips(clean_population_name(df[i].county_name), mapping)]
                @@ df[i]],
        LAMBDA r : notna(r.fips_code))

attach_population(df, mapping) ==
    [i \in 1..Len(df) |->
        [fips_code |-> map_fips(clean_population_name(df[i].county_name), mapping)]
            @@ df[i]]

\* df['fips_code'].notna().sum()
mapped_count(df) == Cardinality({i \in 1..Len(df) : notna(df[i].fips_code)})

\* f"{x:.1f}" of x = mapped / total * 100, as a count of tenths (the nearest,
\* the even one of two equally near); 0 / 0 is nan
percent_tenths(mapped, total) ==
    IF total = 0 THEN NaN
    ELSE LET q == (mapped * 1000) \div total
             r == (mapped * 1000) % total
         IN  IF 2 * r > total \/ (2 * r = total /\ q % 2 = 1)
             THEN I(q + 1) ELSE I(q)

\* the line "FIPS mapping success: m/t (p%)"
success_line(table, df) ==
    [table |-> table,
     mapped_count |-> mapped_count(df),
     total_count |-> Len(df),
     percent |-> percent_tenths(mapped_count(df), Len(df))]

add_fips_to_housing_data ==
    /\ pc = "add_fips_to_housing_data"
    /\ LET affordability_df == attach_housing(files.housing_affordability, fips_mapping)
           trends_df == attach_housing(files.price_trends_annual, fips_mapping)
       IN  /\ log' = Append(log, success_line("housing_affordability", affordability_df))
           /\ files' = [files EXCEPT
                           !.housing_affordability = to_csv(affordability_df),
                           !.price_trends_annual = to_csv(trends_df)]
    /\ pc' = "add_fips_to_population_data"
    /\ UNCHANGED <<raw_unemp, counties_df, fips_mapping, sink, load_idx,
                   raw_pop, bottom_df, top_df, housing_df, fill_pad>>

add_fips_to_population_data ==
    /\ pc = "add_fips_to_population_data"
    /\ LET population_df == attach_population(files.population_annual, fips_mapping)
       IN  /\ log' = Append(log, success_line("population_annual", population_df))
           /\ files' = [files EXCEPT !.population_annual = to_csv(population_df)]
    /\ pc' = "create_tables_and_import_data"
    /\ UNCHANGED <<raw_unemp, counties_df, fips_mapping, sink, load_idx,
                   raw_pop, bottom_df, top_df, housing_df, fill_pad>>

(***************************************************************************)
(* 05_create_sql_database.py: create_tables_and_import_data                *)
(***************************************************************************)
\* the tables in the order they are imported
TableOrder ==
    <<"counties", "economic_annual", "population_annual",
      "housing_prices_monthly", "housing_affordability", "price_trends_annual">>

\* pd.read_csv of one processed file: only housing_prices_monthly.csv has no
\* fips_code column
read_table(name) ==
    IF name = "housing_prices_monthly" THEN files[name] ELSE read_csv(files[name])

\* to_sql with if_exists='append': the rows are added to the table's rows
to_sql_append(db, name, df) ==
    [db EXCEPT ![name] = [exists |-> TRUE, rows |-> db[name].rows \o df]]

\* df.to_sql(name, conn, if_exists='replace', index=False)
to_sql(db, name, df) == [db EXCEPT ![name] = [exists |-> TRUE, rows |-> df]]

\* one read_csv and to_sql pair of create_tables_and_import_data
import_table ==
    /\ pc = "create_tables_and_import_data"
    /\ sink' = to_sql(sink, TableOrder[load_idx], read_table(TableOrder[load_idx]))
    /\ IF load_idx < Len(TableOrder)
       THEN load_idx' = load_idx + 1 /\ pc' = pc
       ELSE load_idx' = load_idx /\ pc' = "done"
    /\ UNCHANGED <<raw_unemp, files, counties_df, fips_mapping, log,
                   raw_pop, bottom_df, top_df, housing_df, fill_pad>>

(***************************************************************************)
(* The inputs: what the raw files may hold                                 *)
(***************************************************************************)
MaxFipsRows == 2
MaxCounties == 2
MaxPopRows == 2
MaxRegions == 1

SeqsUpTo(X, n) == UNION {[1..k -> X] : k \in 0..n}

\* county names as the sources spell them: plain, with the leading "."
\* marker and a trailing blank, with a period inside, and another county
CountyNames ==
    {<<"A", "b", "County">>,
     <<".", "A", "b", "County", " ">>,
     <<"A", ".", "b", "County">>,
     <<"B", "b", "County">>}

\* the first column of the population sheet: a county with the "." marker,
\* a county with a period inside its name, and another county
PopAreas ==
    {<<".", "A", "b", "County", " ">>,
     <<"A", ".", "b", "County">>,
     <<"B", "b", "County">>}

\* a state total of the population sheet
StateArea == <<"B", "b">>

\* the RegionName column of the price files
HousingNames == {<<"A", "b", "County">>, <<"A", ".", "b", "County">>}

\* the national total, a state total and two counties
FipsCodes == {0, 1000, 6001, 36061}

\* a FIPS column of Excel text or integer cells, with blank cells
ObjectFipsCells ==
    {S(zfill(PyStrInt(c), FipsWidth)) : c \in FipsCodes}
        \cup {S(PyStrInt(c)) : c \in FipsCodes}
        \cup {I(c) : c \in FipsCodes}
        \cup {NaN}

\* a numeric FIPS column with blank cells is a float64 column
FloatFipsCells == {F(c) : c \in FipsCodes} \cup {NaN}

\* the unemployment rates and the income of one row of the sheet
EconInputs ==
    {[rate |-> [y \in UnempYears |-> NaN], income |-> NaN],
     [rate |-> [y \in UnempYears |-> IF y = 2022 THEN F(5) ELSE NaN],
      income |-> I(50000)],
     [rate |-> [y \in UnempYears |-> IF y \in {2000, 2022} THEN F(4) ELSE NaN],
      income |-> NaN]}

UnempRow(fips, name, econ) ==
    [FIPS_Code |-> fips, Area_Name |-> S(name),
     Unemployment_rate |-> econ.rate,
     Median_Household_Income_2022 |-> econ.income]

PlainEcon == [rate |-> [y \in UnempYears |-> IF y = 2022 THEN F(5) ELSE NaN],
              income |-> I(50000)]

PlainName == <<"A", "b", "County">>

\* sheets that differ in their FIPS column and their rates
FipsSheets ==
    SeqsUpTo({UnempRow(f, PlainName, e) : f \in ObjectFipsCells, e \in EconInputs},
             MaxFipsRows)
    \cup SeqsUpTo({UnempRow(f, PlainName, e) : f \in FloatFipsCells, e \in EconInputs},
                  MaxFipsRows)

\* the county code of the i-th row of a sheet of distinct counties
CodeOfRow(i) == 1001 * i

\* sheets of distinct counties that differ in their county names
NameSheets ==
    UNION {{[i \in 1..k |-> UnempRow(I(CodeOfRow(i)), names[i], PlainEcon)] :
                names \in [1..k -> CountyNames]} : k \in 0..MaxCounties}

PopYearColumns == <<2020, 2021>>

PopRow(area) ==
    [area |-> S(area), pop |-> [y \in {2020, 2021} |-> IF y = 2020 THEN I(100) ELSE NaN]]

PopSheet(areas) ==
    [year_columns |-> PopYearColumns,
     rows |-> [i \in 1..Len(areas) |-> PopRow(areas[i])]]

PopSheets == {PopSheet(areas) : areas \in SeqsUpTo(PopAreas, MaxPopRows)}

PlainPopSheet == PopSheet(<<StateArea, PlainName>>)

D(y, m) == [y |-> y, m |-> m]

\* a price file with one row per region, each with one price in 2022
NameTier(names, price) ==
    [date_cols |-> <<D(2022, 1)>>,
     rows |-> [i \in 1..Len(names) |->
                 [RegionID |-> i, RegionName |-> S(names[i]),
                  price |-> [d \in {D(2022, 1)} |-> price]]]]

NameTiers ==
    {NameTier(names, R(300000, 1)) : names \in SeqsUpTo(HousingNames, MaxRegions)}

PlainBottom == NameTier(<<PlainName>>, R(300000, 1))
PlainTop == NameTier(<<PlainName>>, R(600000, 1))

NoFiles ==
    [counties |-> <<>>, economic_annual |-> <<>>, population_annual |-> <<>>,
     housing_prices_monthly |-> <<>>, housing_affordability |-> <<>>,
     price_trends_annual |-> <<>>, county_fips_mapping |-> <<>>]

EmptySink ==
    [n \in {TableOrder[i] : i \in 1..Len(TableOrder)} |->
        [exists |-> FALSE, rows |-> <<>>]]

\* nothing has run yet
InitRest ==
    /\ pc = "clean_unemployment_data"
    /\ files = NoFiles
    /\ counties_df = <<>>
    /\ fips_mapping = <<>>
    /\ log = <<>>
    /\ sink = EmptySink
    /\ load_idx = 1
    /\ housing_df = <<>>

InitFips ==
    /\ raw_unemp \in FipsSheets
    /\ raw_pop = PlainPopSheet
    /\ bottom_df = PlainBottom
    /\ top_df = PlainTop
    /\ fill_pad = TRUE
    /\ InitRest

InitNames ==
    /\ raw_unemp \in NameSheets
    /\ raw_pop \in PopSheets
    /\ bottom_df \in NameTiers
    /\ top_df = NameTier(<<>>, NaN)
    /\ fill_pad = TRUE
    /\ InitRest

NextPipeline ==
    \/ clean_unemployment_data
    \/ clean_population_data
    \/ reshape_housing_data
    \/ calculate_affordability_metrics
    \/ create_annual_price_trends
    \/ check_and_fix_fips_codes
    \/ create_county_name_to_fips_mapping
    \/ add_fips_to_housing_data
    \/ add_fips_to_population_data
    \/ import_table

NextNames == NextPipeline \/ check_and_fix_fips_codes_raises

SpecFips == InitFips /\ [][NextPipeline]_vars

SpecNames == InitNames /\ [][NextNames]_vars

(***************************************************************************)
(* Runs of 05_create_sql_database.py on a database an earlier run left     *)
(***************************************************************************)
MaxLoadRows == 2

\* the script is started again: it connects to the same database file and
\* imports the six files once more
run_load_again ==
    /\ pc = "done"
    /\ pc' = "create_tables_and_import_data"
    /\ load_idx' = 1
    /\ UNCHANGED <<raw_unemp, files, counties_df, fips_mapping, log, sink,
                   raw_pop, bottom_df, top_df, housing_df, fill_pad>>

\* the rows an earlier run left in a table
OldRows == <<[fips_code |-> I(1001), county_name |-> S(PlainName)],
             [fips_code |-> I(2002), county_name |-> S(PlainName)]>>

\* the pipeline starts with a database in which any of the tables may exist
InitLoad ==
    /\ raw_unemp \in SeqsUpTo({UnempRow(I(c), PlainName, PlainEcon) :
                                  c \in {6001, 36061}}, MaxLoadRows)
    /\ raw_pop = PlainPopSheet
    /\ bottom_df = PlainBottom
    /\ top_df = PlainTop
    /\ fill_pad = TRUE
    /\ pc = "clean_unemployment_data"
    /\ files = NoFiles
    /\ counties_df = <<>>
    /\ fips_mapping = <<>>
    /\ log = <<>>
    /\ sink \in [DOMAIN EmptySink ->
                    {[exists |-> FALSE, rows |-> <<>>],
                     [exists |-> TRUE, rows |-> OldRows]}]
    /\ load_idx = 1
    /\ housing_df = <<>>

NextLoad == NextPipeline \/ run_load_again

SpecLoad == InitLoad /\ [][NextLoad]_vars

(***************************************************************************)
(* to_sql(if_exists='replace') statement by statement, as another          *)
(* connection to the database file sees it: pandas drops the table,        *)
(* creates it, and inserts the rows in one transaction.  On the sqlite3    *)
(* connection the script opens, DROP TABLE and CREATE TABLE take effect at *)
(* once; only the INSERTs wait for the commit.                             *)
(***************************************************************************)
\* read_csv of the next file, then DROP TABLE when the table exists
to_sql_drop ==
    /\ pc = "create_tables_and_import_data"
    /\ sink' = [sink EXCEPT ![TableOrder[load_idx]] = [exists |-> FALSE, rows |-> <<>>]]
    /\ pc' = "to_sql_create"
    /\ UNCHANGED <<raw_unemp, files, counties_df, fips_mapping, log, load_idx,
                   raw_pop, bottom_df, top_df, housing_df, fill_pad>>

\* CREATE TABLE
to_sql_create ==
    /\ pc = "to_sql_create"
    /\ sink' = [sink EXCEPT ![TableOrder[load_idx]] = [exists |-> TRUE, rows |-> <<>>]]
    /\ pc' = "to_sql_insert"
    /\ UNCHANGED <<raw_unemp, files, counties_df, fips_mapping, log, load_idx,
                   raw_pop, bottom_df, top_df, housing_df, fill_pad>>

\* the INSERTs and their commit, then on to the next table
to_sql_insert ==
    /\ pc = "to_sql_insert"
    /\ sink' = to_sql(sink, TableOrder[load_idx], read_table(TableOrder[load_idx]))
    /\ IF load_idx < Len(TableOrder)
       THEN load_idx' = load_idx + 1 /\ pc' = "create_tables_and_import_data"
       ELSE load_idx' = load_idx /\ pc' = "done"
    /\ UNCHANGED <<raw_unemp, files, counties_df, fips_mapping, log,
                   raw_pop, bottom_df, top_df, housing_df, fill_pad>>

\* a statement raises (the database is locked, the disk is full): pandas
\* rolls the open transaction back, nothing catches the exception and the
\* script ends
to_sql_raises ==
    /\ pc \in {"to_sql_create", "to_sql_insert"}
    /\ pc' = "raised"
    /\ UNCHANGED <<raw_unemp, files, counties_df, fips_mapping, log, sink,
                   load_idx, raw_pop, bottom_df, top_df, housing_df, fill_pad>>

NextReplace ==
    \/ clean_unemployment_data
    \/ clean_population_data
    \/ reshape_housing_data
    \/ calculate_affordability_metrics
    \/ create_annual_price_trends
    \/ check_and_fix_fips_codes
    \/ create_county_name_to_fips_mapping
    \/ add_fips_to_housing_data
    \/ add_fips_to_population_data
    \/ to_sql_drop
    \/ to_sql_create
    \/ to_sql_insert
    \/ to_sql_raises

SpecReplace == InitLoad /\ [][NextReplace]_vars

(***************************************************************************)
(* The price files                                                         *)
(***************************************************************************)
MaxBottomRows == 2
MaxTopRows == 1

\* the regions of the price files and the names they carry
RegionIDs == {1, 2}
RegionNameOf(id) == IF id = 1 THEN S(<<"A", "b", "County">>) ELSE S(<<"B", "b", "County">>)

\* the date columns a price file may have
ReshapeDateCols ==
    {<<D(2021, 1)>>, <<D(2022, 1)>>, <<D(2021, 1), D(2022, 1)>>}

Range(f) == {f[i] : i \in DOMAIN f}

TierRows(cols, prices) ==
    {[RegionID |-> id, RegionName |-> RegionNameOf(id), price |-> p] :
        id \in RegionIDs, p \in [Range(cols) -> prices]}

\* price files of up to n rows; a RegionID may be on more than one row
Tiers(prices, n) ==
    UNION {{[date_cols |-> cols, rows |-> rows] :
                rows \in SeqsUpTo(TierRows(cols, prices), n)} :
           cols \in ReshapeDateCols}

PlainUnemp == <<UnempRow(I(6001), PlainName, PlainEcon)>>

\* the processed files once 02_data_cleaning.py and clean_population_data
\* have run on the plain sheets
FilesBeforeReshape ==
    LET df == unemp_counties(PlainUnemp)
    IN  [NoFiles EXCEPT
            !.counties = to_csv(counties_table(df)),
            !.economic_annual =
                to_csv(merge_income(economic_long(df), income_data(df))),
            !.population_annual = population_long(PlainPopSheet)]

InitBeforeReshape ==
    /\ pc = "reshape_housing_data"
    /\ raw_unemp = PlainUnemp
    /\ raw_pop = PlainPopSheet
    /\ files = FilesBeforeReshape
    /\ counties_df = <<>>
    /\ fips_mapping = <<>>
    /\ log = <<>>
    /\ sink = EmptySink
    /\ load_idx = 1
    /\ housing_df = <<>>

InitReshape ==
    /\ bottom_df \in Tiers({NaN, R(100, 1)}, MaxBottomRows)
    /\ top_df \in Tiers({NaN, R(200, 1)}, MaxTopRows)
    /\ fill_pad = TRUE
    /\ InitBeforeReshape

\* three years of monthly prices, the first year with two months
TrendDateCols == <<D(2020, 1), D(2020, 2), D(2021, 1), D(2022, 1)>>

TrendPrices == {NaN, R(0, 1), R(99, 1), R(100, 1), R(110, 1)}

\* bottom-tier files of two regions, one row each
TrendBottoms ==
    {[date_cols |-> TrendDateCols,
      rows |-> <<[RegionID |-> 1, RegionName |-> RegionNameOf(1), price |-> p1],
                 [RegionID |-> 2, RegionName |-> RegionNameOf(2), price |-> p2]>>] :
        p1 \in [Range(TrendDateCols) -> TrendPrices],
        p2 \in [Range(TrendDateCols) -> {NaN, R(100, 1)}]}

\* top-tier files: no region, or the first region priced in every month
TrendTops ==
    {[date_cols |-> TrendDateCols, rows |-> <<>>],
     [date_cols |-> TrendDateCols,
      rows |-> <<[RegionID |-> 1, RegionName |-> RegionNameOf(1),
                  price |-> [d \in Range(TrendDateCols) |-> R(200, 1)]]>>]}

InitTrends ==
    /\ bottom_df \in TrendBottoms
    /\ top_df \in TrendTops
    /\ fill_pad \in BOOLEAN
    /\ InitBeforeReshape

NextHousing ==
    \/ reshape_housing_data
    \/ calculate_affordability_metrics
    \/ create_annual_price_trends

SpecReshape == InitReshape /\ [][NextHousing]_vars

SpecTrends == InitTrends /\ [][NextHousing]_vars

\* the date columns of a price file for the annual tables: one month, or two
\* months of one year and a month of the next; each file has its own
AffordDateCols ==
    {<<D(2021, 1)>>, <<D(2021, 1), D(2021, 2), D(2022, 1)>>}

AffordBottomPrices == {NaN, R(0, 1), R(300000, 1), R(600000, 1)}

AffordTopPrices == {NaN, R(300000, 1), R(600000, 1)}

\* price files without a row or with the row of one region
AffordTiers(prices) ==
    UNION {{[date_cols |-> cols, rows |-> <<>>]} \cup
           {[date_cols |-> cols, rows |-> <<row>>] : row \in TierRows(cols, prices)} :
           cols \in AffordDateCols}

InitAfford ==
    /\ bottom_df \in AffordTiers(AffordBottomPrices)
    /\ top_df \in AffordTiers(AffordTopPrices)
    /\ fill_pad = TRUE
    /\ InitBeforeReshape

SpecAfford == InitAfford /\ [][NextHousing]_vars

\* sources that may lack a time column: the unemployment sheet the column of
\* 2005, the population sheet its last year column, a price file a date
InitDrift ==
    /\ raw_unemp \in
           {<<[UnempRow(I(6001), PlainName, PlainEcon) EXCEPT
                  !.Unemployment_rate = [y \in years |-> PlainEcon.rate[y]]]>> :
               years \in {UnempYears, UnempYears \ {2005}}}
    /\ raw_pop \in
           {[PopSheet(<<area>>) EXCEPT !.year_columns = cols] :
               area \in PopAreas,
               cols \in {PopYearColumns, SubSeq(PopYearColumns, 1, 1)}}
    /\ bottom_df \in Tiers({NaN, R(100, 1)}, 1)
    /\ top_df \in {[date_cols |-> cols, rows |-> <<>>] : cols \in ReshapeDateCols}
    /\ fill_pad = TRUE
    /\ InitRest

\* 02_data_cleaning.py, then 03_housing_and_population_cleaning.py
NextDrift ==
    \/ clean_unemployment_data
    \/ clean_unemployment_data_raises
    \/ clean_population_data
    \/ reshape_housing_data
    \/ calculate_affordability_metrics
    \/ create_annual_price_trends

SpecDrift == InitDrift /\ [][NextDrift]_vars

(***************************************************************************)
(* FIPS codes (SpecFips)                                                   *)
(***************************************************************************)
\* the county code a raw FIPS cell stands for
RawCode(v) == IF v.t = "str" THEN ParseNat(v.s) ELSE v.n

\* the 5-character zero-padded digit string of a county code
FiveDigits(code) == zfill(PyStrInt(code), 5)

IsFiveDigits(s) == Len(s) = 5 /\ IsDigitStr(s)

\* the source rows that carry a FIPS code
RawFipsRows == {i \in 1..Len(raw_unemp) : notna(raw_unemp[i].FIPS_Code)}

\* the source rows of counties: a code that is not a multiple of 1000
RawCountyRows == {i \in RawFipsRows : RawCode(raw_unemp[i].FIPS_Code) % 1000 # 0}

FipsColumn(rows) == [i \in 1..Len(rows) |-> rows[i].fips_code]

Stage02Done == pc # "clean_unemployment_data"

\* C1: the FIPS normalization sends every raw form of a county code (text
\* with or without the leading zero, an integer, a cell of a numeric column)
\* to the code's 5-character zero-padded string, and normalizing a
\* normalized value changes nothing: every FIPS code of counties.csv is the
\* 5-digit string of the code of a source row.
C1_NormalizeFips ==
    Stage02Done =>
        \A i \in 1..Len(files.counties) :
            /\ files.counties[i].fips_code \in
                   {FiveDigits(RawCode(raw_unemp[j].FIPS_Code)) : j \in RawFipsRows}
            /\ normalize_fips(S(files.counties[i].fips_code)) =
                   S(files.counties[i].fips_code)

\* the tables that carry a fips_code column
FipsTables ==
    {"counties", "economic_annual", "population_annual",
     "housing_affordability", "price_trends_annual"}

\* C2: after stages 02, 03, 04 and 05 every non-null fips_code of every
\* table is a 5-character zero-padded digit string, in the processed files
\* and in the database, where it is the very text of the file.
C2_FiveDigitFipsEverywhere ==
    pc = "done" =>
        \A name \in FipsTables :
            /\ Len(sink[name].rows) = Len(files[name])
            /\ \A i \in 1..Len(files[name]) :
                  LET text == files[name][i].fips_code
                      cell == sink[name].rows[i].fips_code
                  IN  /\ text # <<>> => IsFiveDigits(text)
                      /\ notna(cell) => cell = S(text) /\ IsFiveDigits(text)

\* C3: the county master holds no state or national row: its FIPS codes do
\* not end in "000", and it has exactly the source's county rows, whatever
\* the kind of the source's FIPS column.
C3_NoAggregateRows ==
    Stage02Done =>
        /\ \A i \in 1..Len(files.counties) :
               ~endswith(files.counties[i].fips_code, <<"0", "0", "0">>)
        /\ Len(files.counties) = Cardinality(RawCountyRows)

(***************************************************************************)
(* County names and the FIPS attachment (SpecNames)                        *)
(***************************************************************************)
\* a name in normal form: no capital, no period, no blank at either end
IsNormalName(s) ==
    /\ \A i \in 1..Len(s) : s[i] \notin {"A", "B", "County", "."}
    /\ s = <<>> \/ (s[1] # " " /\ s[Len(s)] # " ")

\* the normal form of a name: periods removed, lower case, blanks stripped
NormalName(s) == str_strip(str_lower(SelectSeq(s, IsNotPeriod)))

Stage04Done == pc \in {"create_tables_and_import_data", "done"}

\* the tables FIPS codes are attached to
AttachTables == {"population_annual", "housing_affordability", "price_trends_annual"}

\* C4: one normalization (lower case, stripped, period-free, idempotent)
\* makes the keys of the mapping and the lookup keys of the population,
\* affordability and price-trend rows, so a row whose name differs from a
\* county master name only in case, blanks or periods finds that county.
C4_OneNameNormalization ==
    Stage04Done =>
        /\ \A k \in DOMAIN fips_mapping :
               IsNormalName(k.s) /\ NormalName(k.s) = k.s
        /\ \A name \in AttachTables : \A i \in 1..Len(files[name]) :
               (\E j \in 1..Len(counties_df) :
                    NormalName(counties_df[j].county_name.s) =
                        NormalName(files[name][i].county_name.s))
                   => files[name][i].fips_code # <<>>

\* a row without its fips_code column
WithoutFips(r) == [f \in DOMAIN r \ {"fips_code"} |-> r[f]]

\* the saved table is the table read, row for row, with a fips_code column
\* that is empty where the cleaned name is no key of the mapping
SameRowsWithFips(read, saved, key(_)) ==
    /\ Len(saved) = Len(read)
    /\ \A i \in 1..Len(read) :
          /\ "fips_code" \in DOMAIN saved[i]
          /\ WithoutFips(saved[i]) = read[i]
          /\ key(read[i].county_name) \notin DOMAIN fips_mapping
                 => saved[i].fips_code = <<>>

\* C5: attaching FIPS codes drops and adds no row: the population,
\* affordability and price-trend tables stage 04 saves have the rows and the
\* values they had when read, and a fips_code column that is null on every
\* row whose normalized name is not a key of the mapping.
C5_AttachKeepsRows ==
    [][/\ pc = "add_fips_to_housing_data" =>
            /\ SameRowsWithFips(files.housing_affordability,
                                files'.housing_affordability, clean_county_name)
            /\ SameRowsWithFips(files.price_trends_annual,
                                files'.price_trends_annual, clean_county_name)
       /\ pc = "add_fips_to_population_data" =>
            SameRowsWithFips(files.population_annual,
                             files'.population_annual, clean_population_name)]_vars

\* all three tables were saved, the population table with a row that found
\* its county and a row that did not
C5_Witness ==
    /\ Stage04Done
    /\ \A name \in AttachTables : Len(files[name]) > 0
    /\ \E i \in 1..Len(files.population_annual) :
           files.population_annual[i].fips_code # <<>>
    /\ \E i \in 1..Len(files.population_annual) :
           files.population_annual[i].fips_code = <<>>

\* the rows of a saved table that carry a FIPS code
MatchedRows(name) ==
    {i \in 1..Len(files[name]) : files[name][i].fips_code # <<>>}

\* C6: every FIPS attachment surfaces match_rate = matched_count /
\* total_count: for the population, the affordability and the price-trend
\* table there is a line with the number of rows that got a FIPS code, the
\* number of rows, and their ratio, also for a table without rows.
C6_MatchRateSurfaced ==
    Stage04Done =>
        \A name \in AttachTables :
            \E k \in 1..Len(log) :
                /\ log[k].table = name
                /\ log[k].mapped_count = Cardinality(MatchedRows(name))
                /\ log[k].total_count = Len(files[name])
                /\ notna(log[k].percent)

\* a printed match rate under the threshold of 0.90
DegradedMatch ==
    \E k \in 1..Len(log) :
        /\ log[k].total_count > 0
        /\ log[k].mapped_count * 100 < log[k].total_count * 90

\* C7: when an attachment's match rate is below 0.90, no table is loaded
\* before an operator acknowledges it.  The scripts have no step that takes
\* an acknowledgment, so none has occurred in any state.
C7_NoLoadAfterDegradedMatch ==
    DegradedMatch => \A name \in DOMAIN sink : ~sink[name].exists

(***************************************************************************)
(* The monthly price table (SpecReshape)                                   *)
(***************************************************************************)
\* the (RegionID, date) pairs a price file has a non-null price for
SourceKeys(tier) ==
    {k \in [RegionID : {tier.rows[i].RegionID : i \in 1..Len(tier.rows)},
            date : Range(tier.date_cols)] :
        \E i \in 1..Len(tier.rows) :
            /\ tier.rows[i].RegionID = k.RegionID
            /\ notna(tier.rows[i].price[k.date])}

\* no RegionID is on two rows of the file
UniqueRegionIDs(tier) ==
    \A i, j \in 1..Len(tier.rows) :
        tier.rows[i].RegionID = tier.rows[j].RegionID => i = j

\* the price a file of unique RegionIDs has for a (RegionID, date): NaN when
\* it lacks the region or the date column
PriceIn(tier, k) ==
    LET rows == {i \in 1..Len(tier.rows) : tier.rows[i].RegionID = k.RegionID}
    IN  IF rows = {} \/ k.date \notin Range(tier.date_cols) THEN NaN
        ELSE tier.rows[CHOOSE i \in rows : TRUE].price[k.date]

HousingRowsOf(k) == {i \in 1..Len(housing_df) : KeyOf(housing_df[i]) = k}

ReshapeDone == pc # "reshape_housing_data"

\* exactly one row for every (RegionID, date) a source prices, no other
\* row, a null top price where only the bottom source prices the pair and a
\* null bottom price where only the top source does
OneRowPerRegionDate ==
    LET keys == SourceKeys(bottom_df) \cup SourceKeys(top_df)
    IN  /\ \A k \in keys : Cardinality(HousingRowsOf(k)) = 1
        /\ \A i \in 1..Len(housing_df) :
              LET k == KeyOf(housing_df[i])
              IN  /\ k \in keys
                  /\ k \notin SourceKeys(top_df) =>
                        /\ notna(housing_df[i].bottom_tier_price)
                        /\ isna(housing_df[i].top_tier_price)
                  /\ k \notin SourceKeys(bottom_df) =>
                        /\ notna(housing_df[i].top_tier_price)
                        /\ isna(housing_df[i].bottom_tier_price)

\* C8 as stated: reshape_housing_data gives exactly one row per (RegionID,
\* date) with a non-null price in a tier source, bottom-only pairs with a
\* null top price, top-only pairs with a null bottom price, and drops a row
\* only when both prices are null.
C8_OneRowPerRegionDate == ReshapeDone => OneRowPerRegionDate

\* C8 as amended: the same, for price files in which no RegionID is on two
\* rows; each price is then the source's price.
C8_OneRowPerRegionDateOfUniqueIDs ==
    (ReshapeDone /\ UniqueRegionIDs(bottom_df) /\ UniqueRegionIDs(top_df)) =>
        /\ OneRowPerRegionDate
        /\ \A i \in 1..Len(housing_df) :
              /\ housing_df[i].bottom_tier_price =
                     PriceIn(bottom_df, KeyOf(housing_df[i]))
              /\ housing_df[i].top_tier_price =
                     PriceIn(top_df, KeyOf(housing_df[i]))

\* a pair only the bottom source has, kept with a null top price, next to a
\* pair only the top source has and a pair whose prices are both null
C8_Witness ==
    /\ ReshapeDone
    /\ UniqueRegionIDs(bottom_df) /\ UniqueRegionIDs(top_df)
    /\ \E i \in 1..Len(housing_df) :
          /\ PriceIn(top_df, KeyOf(housing_df[i])) = NaN
          /\ isna(housing_df[i].top_tier_price)
          /\ notna(housing_df[i].bottom_tier_price)
    /\ \E i \in 1..Len(housing_df) :
          /\ isna(housing_df[i].bottom_tier_price)
          /\ notna(housing_df[i].top_tier_price)
    /\ \E r \in 1..Len(bottom_df.rows) : \E d \in Range(bottom_df.date_cols) :
          LET k == [RegionID |-> bottom_df.rows[r].RegionID, date |-> d]
          IN  /\ isna(PriceIn(bottom_df, k)) /\ isna(PriceIn(top_df, k))
              /\ HousingRowsOf(k) = {}

(***************************************************************************)
(* Year-over-year growth (SpecTrends)                                      *)
(***************************************************************************)
TrendsDone ==
    pc \notin {"clean_unemployment_data", "clean_population_data",
               "reshape_housing_data", "calculate_affordability_metrics",
               "create_annual_price_trends"}

Trends == files.price_trends_annual

\* the rows of the region of row i for the calendar year before row i's
PrecedingYearRows(i) ==
    {j \in 1..Len(Trends) :
        /\ Trends[j].RegionID = Trends[i].RegionID
        /\ Trends[j].year = Trends[i].year - 1}

\* (current - previous) / previous * 100
PercentChange(current, previous) ==
    RatDiv(RatMul(RatSub(current, previous), R(100, 1)), previous)

\* the growth of row i is the percent change against the preceding
\* calendar year of its region, and null without such a year
GrowthVsPrecedingYear(i, price, growth_col) ==
    IF PrecedingYearRows(i) = {} THEN Trends[i][growth_col] = NaN
    ELSE LET j == CHOOSE x \in PrecedingYearRows(i) : TRUE
             current == Trends[i][price]
             previous == Trends[j][price]
         IN  /\ isna(current) => Trends[i][growth_col] = NaN
             /\ (isnum(current) /\ isnum(previous) /\ previous.n # 0) =>
                    Trends[i][growth_col] = PercentChange(current, previous)

\* C9: each year's growth is the percent change of the year's annual mean
\* against the annual mean of the calendar year just before it in the same
\* region, the rows of a region ascend by year, the first year of a region
\* has null growth, and no other region or earlier year enters.
C9_GrowthVsPrecedingYear ==
    TrendsDone =>
        /\ \A i, j \in 1..Len(Trends) :
               (i < j /\ Trends[i].RegionID = Trends[j].RegionID)
                   => Trends[i].year < Trends[j].year
        /\ \A i \in 1..Len(Trends) :
               /\ GrowthVsPrecedingYear(i, "bottom_tier_price", "bottom_tier_growth")
               /\ GrowthVsPrecedingYear(i, "top_tier_price", "top_tier_growth")

\* the growth of row i is null when the preceding year's mean is 0 or null
NullGrowthOnZeroOrNullBase(i, price, growth_col) ==
    \A j \in PrecedingYearRows(i) :
        (isna(Trends[j][price]) \/ Trends[j][price].n = 0)
            => Trends[i][growth_col] = NaN

\* C10: when the previous year's annual mean of the region is 0 or null the
\* growth is null: not an infinity, and not a number taken from an older
\* price.
C10_NullGrowthOnZeroOrNullBase ==
    TrendsDone =>
        \A i \in 1..Len(Trends) :
            /\ NullGrowthOnZeroOrNullBase(i, "bottom_tier_price", "bottom_tier_growth")
            /\ NullGrowthOnZeroOrNullBase(i, "top_tier_price", "top_tier_growth")

(***************************************************************************)
(* The affordability table (SpecAfford)                                    *)
(***************************************************************************)
AffordDone ==
    pc \notin {"clean_unemployment_data", "clean_population_data",
               "reshape_housing_data", "calculate_affordability_metrics"}

Afford == files.housing_affordability

\* the rows of the monthly table for a region and year that price a tier
MonthsOf(id, year, price) ==
    {i \in 1..Len(housing_df) :
        /\ housing_df[i].RegionID = id
        /\ housing_df[i].year = year
        /\ notna(housing_df[i][price])}

RECURSIVE SumOfMonths(_, _)
SumOfMonths(rows, price) ==
    IF rows = {} THEN R(0, 1)
    ELSE LET i == CHOOSE x \in rows : TRUE
         IN  RatAdd(housing_df[i][price], SumOfMonths(rows \ {i}, price))

\* the mean of a region-year's monthly prices of a tier, NaN without a price
AnnualMean(id, year, price) ==
    LET rows == MonthsOf(id, year, price)
    IN  IF rows = {} THEN NaN
        ELSE RatDiv(SumOfMonths(rows, price), R(Cardinality(rows), 1))

\* (annual mean * 0.05) / 0.30
SalaryOfMean(m) ==
    IF isna(m) THEN NaN ELSE RatDiv(RatMul(m, R(5, 100)), R(30, 100))

\* C11: in every row of the affordability table each min_salary is
\* (annual mean of the region-year's monthly prices of the tier * 0.05) / 0.30,
\* taken from the annual mean and not from a month's price; an annual mean
\* of 300000 gives a min_salary of 50000.
C11_MinSalaryOfAnnualMean ==
    AffordDone =>
        \A i \in 1..Len(Afford) :
            /\ Afford[i].bottom_tier_min_salary =
                   SalaryOfMean(AnnualMean(Afford[i].RegionID, Afford[i].year,
                                           "bottom_tier_price"))
            /\ Afford[i].top_tier_min_salary =
                   SalaryOfMean(AnnualMean(Afford[i].RegionID, Afford[i].year,
                                           "top_tier_price"))
            /\ Afford[i].bottom_tier_price = R(300000, 1)
                   => Afford[i].bottom_tier_min_salary = R(50000, 1)

\* a min_salary is null unless its annual mean price is a number other than 0
NullSalaryOfNoPrice(r, price, salary) ==
    /\ notna(r[salary]) => (notna(r[price]) /\ r[price] # R(0, 1))
    /\ r[salary] # R(0, 1)

\* C12: in every row of the affordability table a min_salary is non-null
\* only when its annual mean price is non-null and not zero: a zero or
\* missing price gives a null min_salary, never a min_salary of 0.
C12_NoSalaryOfZeroPrice ==
    AffordDone =>
        \A i \in 1..Len(Afford) :
            /\ NullSalaryOfNoPrice(Afford[i], "bottom_tier_price",
                                   "bottom_tier_min_salary")
            /\ NullSalaryOfNoPrice(Afford[i], "top_tier_price",
                                   "top_tier_min_salary")

(***************************************************************************)
(* Loading into the database (SpecLoad)                                    *)
(***************************************************************************)
\* the table holds the rows of its file as read_csv reads them, and no other
LoadedFromFile(name) ==
    /\ sink[name].exists
    /\ sink[name].rows = read_table(name)
    /\ Len(sink[name].rows) = Len(files[name])

\* the tables the current run of the load stage has imported
ImportedTables ==
    IF pc = "done" THEN {TableOrder[k] : k \in 1..Len(TableOrder)}
    ELSE IF pc = "create_tables_and_import_data"
    THEN {TableOrder[k] : k \in 1..(load_idx - 1)}
    ELSE {}

\* C13: a load with replace semantics leaves one table of the name, whose
\* rows are the rows of this load: as many as the file has, not the rows an
\* earlier load left followed by the new ones; so for each of the six tables
\* and however often the load stage runs.
C13_ReplaceKeepsSecondLoad ==
    \A name \in ImportedTables : LoadedFromFile(name)

\* the first table is replaced by the rows of its file while the second
\* still holds the rows of the earlier load
C13_Witness ==
    /\ pc = "create_tables_and_import_data"
    /\ load_idx = 2
    /\ Len(files.counties) = 1
    /\ LoadedFromFile("counties")
    /\ sink.economic_annual = [exists |-> TRUE, rows |-> OldRows]

(***************************************************************************)
(* What a reader of the database sees during a load (SpecReplace)          *)
(***************************************************************************)
\* C14: replacing a table is atomic: whatever a step of a load does, and
\* also when the load fails part-way, a table that exists goes on existing
\* and holds either the rows it held or all the rows of the new load; a
\* reader never finds it missing, empty or mixed.
C14_AtomicReplace ==
    [][\A name \in DOMAIN sink :
          sink[name].exists =>
              /\ sink'[name].exists
              /\ \/ sink'[name].rows = sink[name].rows
                 \/ sink'[name].rows = read_table(name)]_vars

(***************************************************************************)
(* Wide to long and back (SpecFips)                                        *)
(***************************************************************************)
\* the ids of the table a pivot of the long rows on (id, year) gives
PivotIds(long, id) == {long[i][id] : i \in 1..Len(long)}

\* the cell of that table for an id and a year: the value of the long row
\* of the pair, null when there is none
PivotCell(long, id, value, k, year) ==
    LET rows == {i \in 1..Len(long) : long[i][id] = k /\ long[i].year = year}
    IN  IF rows = {} THEN NaN ELSE long[CHOOSE i \in rows : TRUE][value]

\* the wide frames the year columns are melted from
WideUnemp == unemp_counties(raw_unemp)
WidePop == county_rows(raw_pop.rows)

\* no id is on two rows of the wide frames
UniqueWideIds ==
    /\ \A i, j \in 1..Len(WideUnemp) :
           WideUnemp[i].FIPS_Code = WideUnemp[j].FIPS_Code => i = j
    /\ \A i, j \in 1..Len(WidePop) : WidePop[i].area = WidePop[j].area => i = j

\* C15: for wide tables without duplicate ids, melting the year columns
\* into long rows (unemployment rates, population) and pivoting the long
\* rows back on (id, year) gives the wide table again: the same ids, hence
\* the same number of rows, and the same cells, also for ids whose cells
\* are null in some or in all years.
C15_MeltPivotRoundTrip ==
    (pc = "reshape_housing_data" /\ UniqueWideIds) =>
        /\ PivotIds(files.economic_annual, "fips_code") =
               {WideUnemp[i].FIPS_Code.s : i \in 1..Len(WideUnemp)}
        /\ \A i \in 1..Len(WideUnemp) : \A y \in UnempYears :
               PivotCell(files.economic_annual, "fips_code", "unemployment_rate",
                         WideUnemp[i].FIPS_Code.s, y)
                   = WideUnemp[i].Unemployment_rate[y]
        /\ PivotIds(files.population_annual, "county_name") =
               {S(astype_str(WidePop[i].area)) : i \in 1..Len(WidePop)}
        /\ \A i \in 1..Len(WidePop) : \A k \in 1..Len(raw_pop.year_columns) :
               PivotCell(files.population_annual, "county_name", "population",
                         S(astype_str(WidePop[i].area)), raw_pop.year_columns[k])
                   = WidePop[i].pop[raw_pop.year_columns[k]]

(***************************************************************************)
(* Counties with one name (SpecNames)                                      *)
(***************************************************************************)
\* the county master rows whose cleaned name is also the cleaned name of a
\* row with another FIPS code
CollidingCounties ==
    {i \in 1..Len(counties_df) :
        \E j \in 1..Len(counties_df) :
            /\ counties_df[j].fips_code # counties_df[i].fips_code
            /\ clean_county_name(counties_df[j].county_name) =
                   clean_county_name(counties_df[i].county_name)}

\* C16: when two county master records with distinct FIPS codes have the
\* same normalized name, building the mapping detects it, and no population,
\* affordability or price-trend row is given the FIPS code of one of the
\* colliding counties.  The scripts print or raise nothing about a
\* collision, so an assignment they make is a silent one.
C16_NoFipsOfCollidingCounties ==
    Stage04Done =>
        \A name \in AttachTables : \A r \in 1..Len(files[name]) :
            files[name][r].fips_code \notin
                {counties_df[i].fips_code.s : i \in CollidingCounties}

(***************************************************************************)
(* Sources without an expected time column (SpecDrift)                     *)
(***************************************************************************)
\* the dates the price files are expected to have
ExpectedDates == UNION {Range(cols) : cols \in ReshapeDateCols}

UnempDrift == ~has_unemployment_rate_columns(raw_unemp)
PopDrift == Range(raw_pop.year_columns) # Range(PopYearColumns)
PriceDrift ==
    \/ Range(bottom_df.date_cols) # ExpectedDates
    \/ Range(top_df.date_cols) # ExpectedDates

\* the stage of the unemployment sheet halted and wrote no table
UnempStageHalted ==
    pc # "clean_unemployment_data" =>
        pc = "raised" /\ files.counties = <<>> /\ files.economic_annual = <<>>

\* the stage of the population sheet has not completed and wrote no table
PopStageHalted ==
    /\ pc \in {"clean_unemployment_data", "clean_population_data", "raised"}
    /\ files.population_annual = <<>>

\* the stage of the price files has not completed and wrote no table
PriceStageHalted ==
    /\ pc \in {"clean_unemployment_data", "clean_population_data",
               "reshape_housing_data", "raised"}
    /\ files.housing_prices_monthly = <<>>

\* C17: when a source lacks an expected time column (an unemployment-rate
\* column of 2000-2023, a population year column, a date column of a price
\* file) the stage that reads it halts with an error and writes none of its
\* tables; no stage completes with fewer periods than expected.
C17_HaltOnMissingColumn ==
    /\ UnempDrift => UnempStageHalted
    /\ PopDrift => PopStageHalted
    /\ PriceDrift => PriceStageHalted

(***************************************************************************)
(* Region-years of the annual tables (SpecAfford)                          *)
(***************************************************************************)
RegionYearOf(r) == [RegionID |-> r.RegionID, year |-> r.year]

RegionYears(df) == {RegionYearOf(df[i]) : i \in 1..Len(df)}

\* the table has exactly one row for the region-year
OneRowOf(df, k) == Cardinality({i \in 1..Len(df) : RegionYearOf(df[i]) = k}) = 1

\* C18: the annual aggregation loses no region-year: every (RegionID, year)
\* with a row in the monthly table has exactly one row in the affordability
\* table and exactly one in the price-trend table, also a region whose rows
\* come from the top-tier file alone and have a null county_name; the two
\* annual tables have the same (RegionID, year) keys.
C18_NoRegionYearLost ==
    TrendsDone =>
        /\ \A k \in RegionYears(housing_df) :
               OneRowOf(Afford, k) /\ OneRowOf(Trends, k)
        /\ RegionYears(Afford) = RegionYears(Trends)

====
